---- MODULE Spec2Model ----
(***************************************************************************)
(* Model of the resume extraction pipeline (src/src/extract_data.py) and   *)
(* of the Streamlit front end (src/app.py).                                *)
(*                                                                         *)
(* Text is a sequence of atoms.  An atom is one character (" ", "\n", ",", *)
(* "1", ...) or one word standing for a run of non-blank characters        *)
(* ("education", "EDUCATION", "w").  Python's None is the value None.      *)
(***************************************************************************)
EXTENDS Integers, Sequences, FiniteSets, TLC

VARIABLES
    nPc, nText, nOut, nOut2,
    pPc, pText, pResult,
    sPc, doc, start_pos, end_pos, categories, data,
    rPc, rMode, section, records, index, consumed,
    aPc, submit_resume_clicked, submit_question_clicked, rendered, shown,
    event, job_description, question, listed, fetched, files, extracted,
    raised, scored, answered, generated

normVars == <<nPc, nText, nOut, nOut2>>
phoneVars == <<pPc, pText, pResult>>
segVars == <<sPc, doc, start_pos, end_pos, categories, data>>
recVars == <<rPc, rMode, section, records, index, consumed>>
appVars ==
    <<aPc, submit_resume_clicked, submit_question_clicked, rendered, shown,
      event, job_description, question, listed, fetched, files, extracted,
      raised, scored, answered, generated>>
vars == <<normVars, phoneVars, segVars, recVars, appVars>>

\* ------------------------------------------------------------------ bounds
MaxTextLen == 4
MaxPieces == 3
MaxDocLen == 4
MaxSents == 3

\* ------------------------------------------------------------ text helpers
None == <<"<None>">>

RECURSIVE SeqsUpTo(_, _)
SeqsUpTo(S, n) ==
    IF n = 0 THEN {<<>>}
    ELSE LET shorter == SeqsUpTo(S, n - 1)
         IN  shorter \cup {Append(s, a) : s \in {t \in shorter : Len(t) = n - 1}, a \in S}

RECURSIVE Flatten(_)
Flatten(ss) == IF ss = <<>> THEN <<>> ELSE Head(ss) \o Flatten(Tail(ss))

Max(S) == CHOOSE x \in S : \A y \in S : y <= x
Min(S) == CHOOSE x \in S : \A y \in S : x <= y

\* str.lower(), atom by atom: the upper-case atoms and their lower-case forms.
UpperAtoms ==
    {"B", "EDUCATION", "EXPERIENCE", "SKILLS", "INTERESTS", "AND",
     "EXTRACURRICULAR", "ACTIVITIES", "KEY", "ACHIEVEMENTS", "PERSONAL",
     "STATEMENT", "Experience", "Education", "Acme"}

LowerAtom(a) ==
    CASE a = "B" -> "b"
      [] a \in {"EDUCATION", "Education"} -> "education"
      [] a \in {"EXPERIENCE", "Experience"} -> "experience"
      [] a = "SKILLS" -> "skills"
      [] a = "INTERESTS" -> "interests"
      [] a = "AND" -> "and"
      [] a = "EXTRACURRICULAR" -> "extracurricular"
      [] a = "ACTIVITIES" -> "activities"
      [] a = "KEY" -> "key"
      [] a = "ACHIEVEMENTS" -> "achievements"
      [] a = "PERSONAL" -> "personal"
      [] a = "STATEMENT" -> "statement"
      [] a = "Acme" -> "acme"
      [] OTHER -> a

Lower(text) == [i \in 1..Len(text) |-> LowerAtom(text[i])]

\* The characters \s matches and str.strip() removes.
Whitespace == {" ", "\n", "\t"}

RECURSIVE LStrip(_)
LStrip(text) ==
    IF text # <<>> /\ Head(text) \in Whitespace THEN LStrip(Tail(text)) ELSE text

RECURSIVE RStrip(_)
RStrip(text) ==
    IF text # <<>> /\ text[Len(text)] \in Whitespace
    THEN RStrip(SubSeq(text, 1, Len(text) - 1))
    ELSE text

Strip(text) == RStrip(LStrip(text))

StartsWith(text, prefix) ==
    Len(prefix) <= Len(text) /\ SubSeq(text, 1, Len(prefix)) = prefix

\* "old in text"
Contains(text, old) ==
    \E i \in 0..(Len(text) - Len(old)) : SubSeq(text, i + 1, i + Len(old)) = old

\* str.replace(old, new): every non-overlapping occurrence, left to right.
RECURSIVE Replace(_, _, _)
Replace(text, old, new) ==
    IF text = <<>> \/ old = <<>> THEN text
    ELSE IF StartsWith(text, old)
         THEN new \o Replace(SubSeq(text, Len(old) + 1, Len(text)), old, new)
         ELSE <<Head(text)>> \o Replace(Tail(text), old, new)

\* str.split(sep) for a one-atom separator: always at least one field.
RECURSIVE SplitAcc(_, _, _)
SplitAcc(text, sep, cur) ==
    IF text = <<>> THEN <<cur>>
    ELSE IF Head(text) = sep
         THEN <<cur>> \o SplitAcc(Tail(text), sep, <<>>)
         ELSE SplitAcc(Tail(text), sep, Append(cur, Head(text)))

Split(text, sep) == SplitAcc(text, sep, <<>>)

\* --------------------------------------------------------- text normalizer
NormAlphabet == {"a", "B", " ", "\n"}
NormInputs == SeqsUpTo(NormAlphabet, MaxTextLen)

\* re.sub(r'\s+', ' ', text), with a plausible slip: each whitespace
\* character is replaced on its own, runs are not collapsed.
RECURSIVE SubWhitespaceEach(_)
SubWhitespaceEach(text) ==
    IF text = <<>> THEN <<>>
    ELSE <<IF Head(text) \in Whitespace THEN " " ELSE Head(text)>>
         \o SubWhitespaceEach(Tail(text))

\* re.sub(r'\s+', ' ', text): every maximal run of whitespace becomes " ".
RECURSIVE SubWhitespaceRuns(_)
SubWhitespaceRuns(text) ==
    IF text = <<>> THEN <<>>
    ELSE IF Head(text) \in Whitespace
         THEN <<" ">> \o SubWhitespaceRuns(LStrip(text))
         ELSE <<Head(text)>> \o SubWhitespaceRuns(Tail(text))

preprocess_text_each(text) == SubWhitespaceEach(Lower(text))

\* A slip: the text is lower-cased only, its newlines stay.
preprocess_text_lower(text) == Lower(text)

\* text.lower(), then re.sub(r'\s+', ' ', text)
preprocess_text(text) == SubWhitespaceRuns(Lower(text))

NormIdle == nPc = "off" /\ nText = <<>> /\ nOut = None /\ nOut2 = None

InitNorm == nPc = "input" /\ nText \in NormInputs /\ nOut = None /\ nOut2 = None

\* text = preprocess_text(pdf_text)
PreprocessText ==
    /\ nPc = "input"
    /\ nOut' = preprocess_text(nText)
    /\ nPc' = "once"
    /\ UNCHANGED <<nText, nOut2>>

\* the normalizer applied to its own output
PreprocessAgain ==
    /\ nPc = "once"
    /\ nOut2' = preprocess_text(nOut)
    /\ nPc' = "twice"
    /\ UNCHANGED <<nText, nOut>>

\* --------------------------------------------------------- phone extractor
Digits == {"0", "1", "2", "3", "4", "5", "6", "7", "8", "9"}
LeadDigits == Digits \ {"0"}
PhonePrefix == {"+", "("}
PhoneBody == Digits \cup {" ", ".", "-", "(", ")"}
MinBody == 8

Dots8 == <<".", ".", ".", ".", ".", ".", ".", ".">>
SpacedDashes == <<" ", "-", " ", "-", " ", "-", " ", "-", " ">>
Digits8 == <<"5", "5", "5", "1", "2", "3", "4", "5">>
PhonePieces ==
    {<<"1">>, <<"2">>, <<"0">>, <<"+">>, <<"a">>, <<".">>, Dots8, SpacedDashes, Digits8}
PhoneInputs == {Flatten(ps) : ps \in SeqsUpTo(PhonePieces, MaxPieces)}

\* Length of the longest run of body characters starting at position j.
RECURSIVE BodyRun(_, _)
BodyRun(text, j) ==
    IF j <= Len(text) /\ text[j] \in PhoneBody THEN 1 + BodyRun(text, j + 1) ELSE 0

\* The match of [1-9][0-9 .\-\(\)]{8,}[0-9] with its lead digit at j: the end
\* position of the greedy match, 0 when there is none.
PhoneEndFrom(text, j) ==
    IF j > Len(text) \/ text[j] \notin LeadDigits THEN 0
    ELSE LET k == BodyRun(text, j + 1)
             R == {r \in MinBody..k :
                     j + r + 1 <= Len(text) /\ text[j + r + 1] \in Digits}
         IN  IF R = {} THEN 0 ELSE j + Max(R) + 1

\* [\+\(]? before the lead digit: taken when the rest then matches.
PhoneMatchAt(text, i) ==
    LET withPrefix == IF i <= Len(text) /\ text[i] \in PhonePrefix
                      THEN PhoneEndFrom(text, i + 1) ELSE 0
        bare == PhoneEndFrom(text, i)
    IN  IF withPrefix # 0 THEN withPrefix ELSE bare

\* re.search(pattern, text): the leftmost match; match.group() or None.
extract_phone_number(text) ==
    LET starts == {i \in 1..Len(text) : PhoneMatchAt(text, i) # 0}
    IN  IF starts = {} THEN None
        ELSE LET i == Min(starts) IN SubSeq(text, i, PhoneMatchAt(text, i))

PhoneIdle == pPc = "off" /\ pText = <<>> /\ pResult = None

InitPhone == pPc = "input" /\ pText \in PhoneInputs /\ pResult = None

ExtractPhoneNumber ==
    /\ pPc = "input"
    /\ pResult' = extract_phone_number(pText)
    /\ pPc' = "done"
    /\ UNCHANGED pText

\* -------------------------------------------------------- section segmenter
\* The category names, in the declaration order of the patterns dict.
Education == "Education"
Experience == "Experience"
Skills == "SKILLS, INTERESTS AND EXTRACURRICULAR ACTIVITIES"
KeyAchievements == "Key Achievements"
PersonalStatement == "Personal Statement"
Categories == <<Education, Experience, Skills, KeyAchievements, PersonalStatement>>
CategorySet == {Categories[i] : i \in 1..Len(Categories)}

\* patterns: the (category, phrase) pairs; a phrase is matched on LOWER.
patterns ==
    << <<Education, <<"education">> >>,
       <<Experience, <<"experience">> >>,
       <<Skills, <<"skills">> >>,
       <<Skills, <<"interests">> >>,
       <<Skills, <<"extracurricular", "activities">> >>,
       <<KeyAchievements, <<"key", "achievements">> >>,
       <<PersonalStatement, <<"personal", "statement">> >> >>

\* category.upper(), as text.
CategoryUpper(category) ==
    CASE category = Education -> <<"EDUCATION">>
      [] category = Experience -> <<"EXPERIENCE">>
      [] category = Skills ->
            <<"SKILLS", ",", " ", "INTERESTS", " ", "AND", " ",
              "EXTRACURRICULAR", " ", "ACTIVITIES">>
      [] category = KeyAchievements -> <<"KEY", " ", "ACHIEVEMENTS">>
      [] category = PersonalStatement -> <<"PERSONAL", " ", "STATEMENT">>

\* python's None for a position
NoPos == -1

\* A Doc is its sequence of tokens.  The token "\n\n" is a blank-line token;
\* every other token is a word.  A word is followed by one space unless a
\* blank-line token follows it.
BlankLine == "\n\n"
Vocab ==
    {"education", "experience", "skills", "interests", "key", "achievements",
     "EDUCATION", BlankLine, "w"}
Docs == SeqsUpTo(Vocab, MaxDocLen)

TokenText(t) == IF t = BlankLine THEN <<"\n", "\n">> ELSE <<t>>

TokenWs(d, i) ==
    IF i < Len(d) /\ d[i] # BlankLine /\ d[i + 1] # BlankLine THEN <<" ">> ELSE <<>>

\* doc[pos:end].text: the tokens pos..end-1 (0-based) with the whitespace
\* between them, without the whitespace after the last one.
SpanText(d, pos, end) ==
    IF end <= pos THEN <<>>
    ELSE Flatten([k \in 1..(end - pos) |->
                    TokenText(d[pos + k])
                    \o (IF pos + k < end THEN TokenWs(d, pos + k) ELSE <<>>)])

\* A phrase matches the tokens that end at (1-based) position e.
PhraseEndsAt(d, phrase, e) ==
    /\ Len(phrase) <= e
    /\ \A k \in 1..Len(phrase) : LowerAtom(d[e - Len(phrase) + k]) = phrase[k]

\* The matches the Matcher reports as it reaches token e, as
\* (rule_id, start, end) with 0-based start and exclusive end.
RECURSIVE MatchesEndingAt(_, _, _)
MatchesEndingAt(d, e, n) ==
    IF n > Len(patterns) THEN <<>>
    ELSE LET category == patterns[n][1]
             phrase == patterns[n][2]
         IN  (IF PhraseEndsAt(d, phrase, e)
              THEN << <<category, e - Len(phrase), e>> >>
              ELSE <<>>)
             \o MatchesEndingAt(d, e, n + 1)

\* matcher(doc): the matches in the order the scan of the document finds them.
Matcher(d) == Flatten([e \in 1..Len(d) |-> MatchesEndingAt(d, e, 1)])

\* for match_id, start, end in matches: start_pos[rule_id] = start
RECURSIVE RecordStarts(_, _)
RecordStarts(matches, sp) ==
    IF matches = <<>> THEN sp
    ELSE RecordStarts(Tail(matches),
                      [sp EXCEPT ![Head(matches)[1]] = Head(matches)[2]])

\* dict helpers: d[k] = v, d.get(k, default)
DictSet(d, k, v) == [x \in DOMAIN d \cup {k} |-> IF x = k THEN v ELSE d[x]]
DictGet(d, k, default) == IF k \in DOMAIN d THEN d[k] ELSE default

\* A slip: the section always runs to the end of the document.
EndPosDocEnd(d, sp, pos) == Len(d)

\* A slip: "other_pos >= pos", so a category bounds its own span.
EndPosInclusive(d, sp, pos) ==
    Min({Len(d)} \cup {sp[c] : c \in {x \in DOMAIN sp : sp[x] # NoPos /\ sp[x] >= pos}})

\* end_pos = len(doc); for every other recorded start beyond pos, the minimum.
EndPos(d, sp, pos) ==
    Min({Len(d)} \cup {sp[c] : c \in {x \in DOMAIN sp : sp[x] # NoPos /\ sp[x] > pos}})

\* span.text.strip().replace(category.upper() + "\n\n", "")
SectionText(d, category, pos, end) ==
    Replace(Strip(SpanText(d, pos, end)), CategoryUpper(category) \o <<"\n", "\n">>, <<>>)

\* A slip: only the categories with a match get a key.
InitialCategoriesNone == [category \in {} |-> <<>>]

\* categories = {category: "" for category in patterns.keys()}
InitialCategories == [category \in CategorySet |-> <<>>]

\* The loop over start_pos.items(), from the n-th category on.
RECURSIVE FillCategories(_, _, _, _)
FillCategories(d, sp, cats, n) ==
    IF n > Len(Categories) THEN cats
    ELSE LET category == Categories[n]
             pos == sp[category]
         IN  FillCategories(d, sp,
                 IF pos # NoPos
                 THEN DictSet(cats, category,
                              SectionText(d, category, pos, EndPos(d, sp, pos)))
                 ELSE cats,
                 n + 1)

StartPositions(d) == RecordStarts(Matcher(d), [category \in CategorySet |-> NoPos])

extract_categories(d) == FillCategories(d, StartPositions(d), InitialCategories, 1)

NA == <<"N/A">>
NoData == [skills |-> None, key_achievements |-> None, personal_statement |-> None]

SegIdle ==
    /\ sPc = "off" /\ doc = <<>>
    /\ start_pos = [category \in CategorySet |-> NoPos]
    /\ end_pos = [category \in CategorySet |-> NoPos]
    /\ categories = <<>> /\ data = NoData

InitSeg ==
    /\ sPc = "input" /\ doc \in Docs
    /\ start_pos = [category \in CategorySet |-> NoPos]
    /\ end_pos = [category \in CategorySet |-> NoPos]
    /\ categories = <<>> /\ data = NoData

\* categories = extract_categories(text)
ExtractCategories ==
    /\ sPc = "input"
    /\ start_pos' = StartPositions(doc)
    /\ end_pos' = [category \in CategorySet |->
                     IF start_pos'[category] = NoPos THEN NoPos
                     ELSE EndPos(doc, start_pos', start_pos'[category])]
    /\ categories' = extract_categories(doc)
    /\ sPc' = "categories"
    /\ UNCHANGED <<doc, data>>

\* The section fields of the dict extract_resume_data returns.
ResumeDataSections ==
    /\ sPc = "categories"
    /\ data' = [skills |-> DictGet(categories, Skills, NA),
                key_achievements |-> DictGet(categories, KeyAchievements, NA),
                personal_statement |-> DictGet(categories, PersonalStatement, NA)]
    /\ sPc' = "done"
    /\ UNCHANGED <<doc, start_pos, end_pos, categories>>

\* ------------------------------------------------------------ record builder
\* A sentence of the NER collaborator: its text and its entities in order,
\* each entity a label and a non-empty text.
Ent(label, text) == [label |-> label, text |-> text]
Sent(text, ents) == [text |-> text, ents |-> ents]

EntDate == Ent("DATE", <<"2020">>)
EntOrg == Ent("ORG", <<"Acme">>)
EntOrgLabel == Ent("ORG", <<"work", " ", "Experience">>)
EntPlace == Ent("GPE", <<"paris">>)

\* one line, opens a record
SentStart ==
    Sent(<<"Acme", " ", "paris", " ", "2020">>, <<EntOrg, EntPlace, EntDate>>)
\* one line, opens a record; its only ORG entity holds the word "experience"
SentStartLabelOrg ==
    Sent(<<"work", " ", "Experience", " ", "paris", " ", "2020">>,
         <<EntOrgLabel, EntPlace, EntDate>>)
\* three lines, the first with four comma-separated fields; opens a record
SentStartLines ==
    Sent(<<"Acme", ",", "paris", ",", "w", ",", "dev", " ", "2020", "\n",
           "builds", "\n", "algebra">>,
         <<EntDate, EntOrg, EntPlace>>)
\* free text, no entity
SentFree == Sent(<<"did", " ", "things">>, <<>>)
\* free text over two lines, an ORG entity only
SentFreeLines == Sent(<<"more", "\n", "Acme">>, <<EntOrg>>)
\* DATE and GPE but no ORG
SentNoOrg == Sent(<<"paris", " ", "2020">>, <<EntPlace, EntDate>>)

Sentences ==
    {SentStart, SentStartLabelOrg, SentStartLines, SentFree, SentFreeLines, SentNoOrg}
Sections == SeqsUpTo(Sentences, MaxSents)

\* The sentences of a section whose text went through preprocess_text first.
NormalizedSent(sent) ==
    Sent(preprocess_text(sent.text),
         [i \in 1..Len(sent.ents) |->
            Ent(sent.ents[i].label, preprocess_text(sent.ents[i].text))])
NormalizedSection(sents) == [i \in 1..Len(sents) |-> NormalizedSent(sents[i])]

\* labels = [ent.label_ for ent in sent.ents]
EntLabels(sent) == {sent.ents[i].label : i \in 1..Len(sent.ents)}

\* A slip: the ORG label is not asked for.
IsRecordStartNoOrg(sent) == {"DATE", "GPE"} \subseteq EntLabels(sent)

\* "DATE" in labels and "ORG" in labels and "GPE" in labels
IsRecordStart(sent) == {"DATE", "ORG", "GPE"} \subseteq EntLabels(sent)

\* [ent.text for ent in sent.ents if ent.label_ == label]
RECURSIVE EntTexts(_, _)
EntTexts(ents, label) ==
    IF ents = <<>> THEN <<>>
    ELSE (IF Head(ents).label = label THEN <<Head(ents).text>> ELSE <<>>)
         \o EntTexts(Tail(ents), label)

\* [... if ent.label_ == "ORG" and "experience" not in ent.text.lower()]
RECURSIVE OrgTexts(_)
OrgTexts(ents) ==
    IF ents = <<>> THEN <<>>
    ELSE (IF Head(ents).label = "ORG" /\ ~Contains(Lower(Head(ents).text), <<"experience">>)
          THEN <<Head(ents).text>> ELSE <<>>)
         \o OrgTexts(Tail(ents))

\* A slip: the field keeps its initial '' when the list is empty.
FirstOrEmpty(list, default) == IF list # <<>> THEN list[1] ELSE <<>>

\* list[0] if list else "N/A"
FirstOr(list, default) == IF list # <<>> THEN list[1] ELSE default

\* [s for s in sent.text.split("\n") if s.strip() and word not in s.lower()]
RECURSIVE KeepLines(_, _)
KeepLines(lines, word) ==
    IF lines = <<>> THEN <<>>
    ELSE (IF Strip(Head(lines)) # <<>> /\ ~Contains(Lower(Head(lines)), <<word>>)
          THEN <<Head(lines)>> ELSE <<>>)
         \o KeepLines(Tail(lines), word)

SentSplit(sent, word) == KeepLines(Split(sent.text, "\n"), word)

\* A slip: the sentence is appended without the separating space.
AppendDescriptionBare(description, text) == description \o Replace(text, <<"\n">>, <<" ">>)

\* A slip: the newlines of the sentence are kept.
AppendDescriptionRaw(description, text) == description \o text \o <<" ">>

\* description += sent.text.replace("\n", " ") + " "
AppendDescription(description, text) ==
    description \o Replace(text, <<"\n">>, <<" ">>) \o <<" ">>

\* The education record a record-start sentence opens.
NewEducation(sent) ==
    LET sent_split == SentSplit(sent, "education")
    IN  [date |-> FirstOr(EntTexts(sent.ents, "DATE"), NA),
         institution |-> FirstOr(EntTexts(sent.ents, "ORG"), NA),
         place |-> FirstOr(EntTexts(sent.ents, "GPE"), NA),
         formation_name |-> IF Len(sent_split) > 1 THEN sent_split[2] ELSE NA,
         description |->
            IF Len(sent_split) > 1
            THEN <<"Modules:", " ">>
                 \o (IF Len(sent_split) > 2 THEN sent_split[3] ELSE NA) \o <<" ">>
            ELSE NA]

\* The experience record a record-start sentence opens.
NewExperience(sent) ==
    LET date == EntTexts(sent.ents, "DATE")
        sent_split == SentSplit(sent, "experience")
        fields == IF sent_split = <<>> THEN <<>> ELSE Split(sent_split[1], ",")
        role == IF Len(fields) > 3 THEN fields[4] ELSE NA
    IN  [date |-> FirstOr(date, NA),
         org_name |-> FirstOr(OrgTexts(sent.ents), NA),
         place |-> FirstOr(EntTexts(sent.ents, "GPE"), NA),
         role |-> IF Len(sent_split) > 1
                  THEN Strip(Replace(role, date[1], <<>>)) ELSE NA,
         org_description |-> IF Len(sent_split) > 1 THEN sent_split[2] ELSE NA,
         description |-> <<>>]

\* One pass of the loop over doc.sents; index is Len(acc) - 1.
RECURSIVE BuildRecords(_, _, _)
BuildRecords(sents, acc, kind) ==
    IF sents = <<>> THEN acc
    ELSE LET sent == Head(sents)
         IN  BuildRecords(Tail(sents),
                 IF IsRecordStart(sent)
                 THEN Append(acc, IF kind = Education THEN NewEducation(sent)
                                  ELSE NewExperience(sent))
                 ELSE IF Len(acc) - 1 >= 0
                      THEN [acc EXCEPT ![Len(acc)].description =
                                          AppendDescription(@, sent.text)]
                      ELSE acc,
                 kind)

extract_education(sents) == BuildRecords(sents, <<>>, Education)
extract_experiences(sents) == BuildRecords(sents, <<>>, Experience)

RecIdle ==
    /\ rPc = "off" /\ rMode = "direct" /\ section = <<>> /\ records = <<>>
    /\ index = -1 /\ consumed = 0

\* "direct": the section as the NER collaborator segments raw text;
\* "pipeline": the text went through preprocess_text first, as in the app.
InitRec ==
    /\ rPc = "input"
    /\ rMode \in {"direct", "pipeline"}
    /\ \E raw \in Sections :
          section = IF rMode = "pipeline" THEN NormalizedSection(raw) ELSE raw
    /\ records = <<>>
    /\ index = -1 /\ consumed = 0

\* "education": extract_education(categories)
ExtractEducation ==
    /\ rPc = "input"
    /\ records' = extract_education(section)
    /\ rPc' = "education"
    /\ UNCHANGED <<rMode, section, index, consumed>>

\* "experience": extract_experiences(categories)
ExtractExperiences ==
    /\ rPc = "input"
    /\ records' = extract_experiences(section)
    /\ rPc' = "experience"
    /\ UNCHANGED <<rMode, section, index, consumed>>

\* The record the append at a record start adds, before its fields are set.
BlankRecord(kind) ==
    IF kind = Education
    THEN [date |-> <<>>, place |-> <<>>, institution |-> <<>>,
          formation_name |-> <<>>, description |-> <<>>]
    ELSE [date |-> <<>>, place |-> <<>>, org_name |-> <<>>,
          org_description |-> <<>>, role |-> <<>>, description |-> <<>>]

\* A slip: a sentence met while no record is open opens one that holds it.
LoopBodyKeepsStray(recs, idx, sent, kind) ==
    IF IsRecordStart(sent) \/ idx < 0
    THEN [records |-> Append(recs, [BlankRecord(kind) EXCEPT !.description = sent.text]),
          index |-> idx + 1]
    ELSE [records |-> [recs EXCEPT ![idx + 1].description =
                                      AppendDescription(@, sent.text)],
          index |-> idx]

\* The body of the loop over doc.sents, for one sentence: the list and index
\* it leaves.  records[index] of the code is recs[idx + 1] here.
LoopBody(recs, idx, sent, kind) ==
    IF IsRecordStart(sent)
    THEN LET appended == Append(recs, BlankRecord(kind))
             i == idx + 1
         IN  [records |-> [appended EXCEPT ![i + 1] =
                              IF kind = Education THEN NewEducation(sent)
                              ELSE NewExperience(sent)],
              index |-> i]
    ELSE IF idx >= 0
         THEN [records |-> [recs EXCEPT ![idx + 1].description =
                                           AppendDescription(@, sent.text)],
               index |-> idx]
         ELSE [records |-> recs, index |-> idx]

\* education = []; index = -1 (and the same in extract_experiences)
EnterLoop(kind) ==
    /\ rPc = "input"
    /\ rPc' = IF kind = Education THEN "education_loop" ELSE "experience_loop"
    /\ records' = <<>>
    /\ index' = -1
    /\ consumed' = 0
    /\ UNCHANGED <<rMode, section>>

\* One iteration of "for sent in doc.sents".
LoopSentence(kind) ==
    /\ rPc = IF kind = Education THEN "education_loop" ELSE "experience_loop"
    /\ consumed < Len(section)
    /\ LET r == LoopBody(records, index, section[consumed + 1], kind)
       IN  records' = r.records /\ index' = r.index
    /\ consumed' = consumed + 1
    /\ UNCHANGED <<rPc, rMode, section>>

\* return education / return experiences
ReturnRecords(kind) ==
    /\ rPc = IF kind = Education THEN "education_loop" ELSE "experience_loop"
    /\ consumed = Len(section)
    /\ rPc' = IF kind = Education THEN "education" ELSE "experience"
    /\ UNCHANGED <<rMode, section, records, index, consumed>>

\* ------------------------------------------------------------------ the app
\* What the collaborators may do in one run of the script.
ListOutcomes ==
    {[ok |-> FALSE, blobs |-> <<>>],
     [ok |-> TRUE, blobs |-> <<"notes.txt">>],
     [ok |-> TRUE, blobs |-> <<"notes.txt", "cv.pdf">>]}
FetchOutcomes ==
    {[ok |-> FALSE, text |-> <<>>],
     [ok |-> TRUE, text |-> <<>>],
     [ok |-> TRUE, text |-> <<"Acme", "\n", "w">>]}
\* What the user may have typed into a text area.
Typed == {<<>>, <<" ", "\n">>, <<"w">>, <<" ", "w", " ">>}

\* blob.name.endswith('.pdf')
PdfNames == {"cv.pdf"}

RECURSIVE PdfOnly(_)
PdfOnly(blobs) ==
    IF blobs = <<>> THEN <<>>
    ELSE (IF Head(blobs) \in PdfNames THEN <<Head(blobs)>> ELSE <<>>)
         \o PdfOnly(Tail(blobs))

\* A slip: the failure of the storage client leaves the function as an exception.
list_files_in_container_raising(outcome) ==
    IF outcome.ok THEN [raised |-> FALSE, value |-> PdfOnly(outcome.blobs)]
    ELSE [raised |-> TRUE, value |-> <<>>]

\* try: ... return files / except Exception: return []
list_files_in_container(outcome) ==
    IF outcome.ok THEN [raised |-> FALSE, value |-> PdfOnly(outcome.blobs)]
    ELSE [raised |-> FALSE, value |-> <<>>]

\* try: ... return pdf_text / except Exception: return ""
get_blob_data(outcome) ==
    IF outcome.ok THEN [raised |-> FALSE, value |-> outcome.text]
    ELSE [raised |-> FALSE, value |-> <<>>]

\* The effects of answer_question: what it shows and what reaches model.generate.
answer_question(q, tokOK) ==
    IF Strip(q) = <<>>
    THEN [shown |-> {"Question cannot be empty."}, generated |-> {}]
    ELSE IF ~tokOK
         THEN [shown |-> {"Error generating answer"}, generated |-> {}]
         ELSE [shown |-> {}, generated |-> {q}]

\* A slip: the question goes to answer_question unchecked.
handle_question_unchecked(q, clicked, tokOK) ==
    IF clicked
    THEN LET a == answer_question(q, tokOK)
         IN  [shown |-> a.shown \cup {"Answer"}, answered |-> {q},
              generated |-> a.generated, clicked |-> FALSE]
    ELSE [shown |-> {}, answered |-> {}, generated |-> {}, clicked |-> clicked]

\* The effects of handle_question, given st.session_state.submit_question_clicked.
handle_question(q, clicked, tokOK) ==
    IF clicked
    THEN IF Strip(q) # <<>>
         THEN LET a == answer_question(q, tokOK)
              IN  [shown |-> a.shown \cup {"Answer"}, answered |-> {q},
                   generated |-> a.generated, clicked |-> FALSE]
         ELSE [shown |-> {"Please provide a question."}, answered |-> {},
               generated |-> {}, clicked |-> clicked]
    ELSE [shown |-> {}, answered |-> {}, generated |-> {}, clicked |-> clicked]

\* The outcome of a run that has done nothing yet.
RunStart ==
    [resume_clicked |-> submit_resume_clicked,
     question_clicked |-> submit_question_clicked,
     rendered |-> {}, shown |-> {}, listed |-> "none", fetched |-> "none",
     files |-> <<>>, extracted |-> FALSE, raised |-> FALSE,
     scored |-> {}, answered |-> {}, generated |-> {}]

\* app.py lines 111-127: the widgets below the extraction.
BelowExtraction(r, ev, tokOK, jd, q) ==
    LET r1 == [r EXCEPT !.rendered = @ \cup {"job_description", "compute_similarity",
                                              "question", "submit_question"}]
        r2 == IF ev = "compute_similarity"
              THEN IF Strip(jd) # <<>>
                   THEN [r1 EXCEPT !.scored = {jd}, !.shown = @ \cup {"Similarity Score"}]
                   ELSE [r1 EXCEPT !.shown = @ \cup {"Please enter a job description."}]
              ELSE r1
    IN  IF ev = "submit_question"
        THEN LET h == handle_question(q, TRUE, tokOK)
             IN  [r2 EXCEPT !.question_clicked = h.clicked,
                            !.shown = @ \cup h.shown,
                            !.answered = h.answered,
                            !.generated = h.generated]
        ELSE r2

\* app.py lines 101-133: the block under st.session_state.submit_resume_clicked.
ProcessFile(r, ev, fetch, extractOK, tokOK, jd, q) ==
    LET got == get_blob_data(fetch)
        r1 == [r EXCEPT !.fetched = IF fetch.ok THEN "ok" ELSE "fail"]
    IN  IF got.raised
        THEN [r1 EXCEPT !.shown = @ \cup {"Error processing file data"}]
        ELSE IF got.value # <<>>
             THEN IF extractOK
                  THEN BelowExtraction([r1 EXCEPT !.extracted = TRUE], ev, tokOK, jd, q)
                  ELSE [r1 EXCEPT !.extracted = TRUE,
                                  !.shown = @ \cup {"Error processing file data"}]
             ELSE [r1 EXCEPT !.shown = @ \cup {"No data extracted from the file."}]

\* main(): one run of the script, as its outcome.
main(ev, modelOK, listing, fetch, extractOK, tokOK, jd, q) ==
    IF ~modelOK
    THEN [RunStart EXCEPT !.shown = {"Error loading model",
                                     "Model and tokenizer could not be loaded."}]
    ELSE LET got == list_files_in_container(listing)
             r == [RunStart EXCEPT !.listed = IF listing.ok THEN "ok" ELSE "fail"]
         IN  IF got.raised
             THEN [r EXCEPT !.shown = {"Error fetching files from container"}]
             ELSE IF got.value # <<>>
                  THEN LET selected_file == got.value[1]
                           r1 == [r EXCEPT !.files = got.value,
                                           !.rendered = {"selectbox"}]
                       IN  IF selected_file # ""
                           THEN LET r2 == [r1 EXCEPT
                                             !.rendered = @ \cup {"submit_resume"},
                                             !.resume_clicked =
                                                 @ \/ ev = "submit_resume"]
                                IN  IF r2.resume_clicked
                                    THEN ProcessFile(r2, ev, fetch, extractOK, tokOK, jd, q)
                                    ELSE r2
                           ELSE [r1 EXCEPT !.shown = {"Please select a file first."}]
                  ELSE [r EXCEPT !.shown = {"No files found in the specified container."}]

AppIdle ==
    /\ aPc = "off"
    /\ submit_resume_clicked = FALSE /\ submit_question_clicked = FALSE
    /\ rendered = {} /\ shown = {} /\ event = "none"
    /\ job_description = <<>> /\ question = <<>>
    /\ listed = "none" /\ fetched = "none" /\ files = <<>>
    /\ extracted = FALSE /\ raised = FALSE
    /\ scored = {} /\ answered = {} /\ generated = {}

\* The session before the first run: both flags False, nothing on the page.
InitApp ==
    /\ aPc = "idle"
    /\ submit_resume_clicked = FALSE /\ submit_question_clicked = FALSE
    /\ rendered = {} /\ shown = {} /\ event = "none"
    /\ job_description = <<>> /\ question = <<>>
    /\ listed = "none" /\ fetched = "none" /\ files = <<>>
    /\ extracted = FALSE /\ raised = FALSE
    /\ scored = {} /\ answered = {} /\ generated = {}

\* One run of the script on the event ev.  scored, answered and generated hold
\* the arguments that reached compute_similarity, answer_question and
\* model.generate in this run; a text area's value is read only when the run
\* reaches it.
RunMain(ev) ==
    /\ aPc = "idle"
    /\ \E modelOK, extractOK, tokOK \in BOOLEAN, listing \in ListOutcomes,
          fetch \in FetchOutcomes, jd, q \in Typed :
          LET r == main(ev, modelOK, listing, fetch, extractOK, tokOK, jd, q)
          IN  /\ submit_resume_clicked' = r.resume_clicked
              /\ submit_question_clicked' = r.question_clicked
              /\ rendered' = r.rendered
              /\ shown' = r.shown
              /\ listed' = r.listed
              /\ fetched' = r.fetched
              /\ files' = r.files
              /\ extracted' = r.extracted
              /\ raised' = r.raised
              /\ scored' = r.scored
              /\ answered' = r.answered
              /\ generated' = r.generated
              /\ event' = ev
              /\ job_description' = IF "job_description" \in r.rendered THEN jd ELSE <<>>
              /\ question' = IF "question" \in r.rendered THEN q ELSE <<>>
    /\ aPc' = "idle"

\* ----------------------------------------------------------- specifications
\* Each component is checked on its own: the others stay idle.
InitNormOnly == InitNorm /\ PhoneIdle /\ SegIdle /\ RecIdle /\ AppIdle
NormalizeOnce == PreprocessText /\ UNCHANGED <<phoneVars, segVars, recVars, appVars>>
NormalizeTwice == PreprocessAgain /\ UNCHANGED <<phoneVars, segVars, recVars, appVars>>
NextNorm == NormalizeOnce \/ NormalizeTwice
SpecNorm == InitNormOnly /\ [][NextNorm]_vars

InitPhoneOnly == InitPhone /\ NormIdle /\ SegIdle /\ RecIdle /\ AppIdle
NextPhone == ExtractPhoneNumber /\ UNCHANGED <<normVars, segVars, recVars, appVars>>
SpecPhone == InitPhoneOnly /\ [][NextPhone]_vars

InitSegOnly == InitSeg /\ NormIdle /\ PhoneIdle /\ RecIdle /\ AppIdle
Segment == ExtractCategories /\ UNCHANGED <<normVars, phoneVars, recVars, appVars>>
FillSections == ResumeDataSections /\ UNCHANGED <<normVars, phoneVars, recVars, appVars>>
NextSeg == Segment \/ FillSections
SpecSeg == InitSegOnly /\ [][NextSeg]_vars

InitRecOnly == InitRec /\ NormIdle /\ PhoneIdle /\ SegIdle /\ AppIdle
BuildEducation == ExtractEducation /\ UNCHANGED <<normVars, phoneVars, segVars, appVars>>
BuildExperiences == ExtractExperiences /\ UNCHANGED <<normVars, phoneVars, segVars, appVars>>
NextRec == BuildEducation \/ BuildExperiences
SpecRec == InitRecOnly /\ [][NextRec]_vars

\* The record builder sentence by sentence.
EnterEducation == EnterLoop(Education) /\ UNCHANGED <<normVars, phoneVars, segVars, appVars>>
EducationSentence ==
    LoopSentence(Education) /\ UNCHANGED <<normVars, phoneVars, segVars, appVars>>
ReturnEducation ==
    ReturnRecords(Education) /\ UNCHANGED <<normVars, phoneVars, segVars, appVars>>
EnterExperiences == EnterLoop(Experience) /\ UNCHANGED <<normVars, phoneVars, segVars, appVars>>
ExperienceSentence ==
    LoopSentence(Experience) /\ UNCHANGED <<normVars, phoneVars, segVars, appVars>>
ReturnExperiences ==
    ReturnRecords(Experience) /\ UNCHANGED <<normVars, phoneVars, segVars, appVars>>
NextRecLoop ==
    \/ EnterEducation \/ EducationSentence \/ ReturnEducation
    \/ EnterExperiences \/ ExperienceSentence \/ ReturnExperiences
SpecRecLoop == InitRecOnly /\ [][NextRecLoop]_vars

\* The runs of the script: a rerun with no button pressed (the first load, an
\* edit of a text area), or a press of a button the last run rendered.
InitAppOnly == InitApp /\ NormIdle /\ PhoneIdle /\ SegIdle /\ RecIdle
Rerun == RunMain("none") /\ UNCHANGED <<normVars, phoneVars, segVars, recVars>>
ClickSubmitResume ==
    /\ "submit_resume" \in rendered
    /\ RunMain("submit_resume")
    /\ UNCHANGED <<normVars, phoneVars, segVars, recVars>>
ClickComputeSimilarity ==
    /\ "compute_similarity" \in rendered
    /\ RunMain("compute_similarity")
    /\ UNCHANGED <<normVars, phoneVars, segVars, recVars>>
ClickSubmitQuestion ==
    /\ "submit_question" \in rendered
    /\ RunMain("submit_question")
    /\ UNCHANGED <<normVars, phoneVars, segVars, recVars>>
NextApp == Rerun \/ ClickSubmitResume \/ ClickComputeSimilarity \/ ClickSubmitQuestion
SpecApp == InitAppOnly /\ [][NextApp]_vars

Init == InitNormOnly \/ InitPhoneOnly \/ InitSegOnly \/ InitRecOnly \/ InitAppOnly
Next == NextNorm \/ NextPhone \/ NextSeg \/ NextRec \/ NextRecLoop \/ NextApp
Spec == Init /\ [][Next]_vars

\* ------------------------------------------------------------------ claims
CountDigits(text) == Cardinality({i \in 1..Len(text) : text[i] \in Digits})

NoDoubleSpace(text) ==
    \A i \in 1..(Len(text) - 1) : ~(text[i] \in Whitespace /\ text[i + 1] \in Whitespace)

\* The start positions of the matches of one category.
MatchStarts(d, category) ==
    LET matches == Matcher(d)
    IN  {matches[i][2] : i \in {j \in 1..Len(matches) : matches[j][1] = category}}

Found == {category \in CategorySet : start_pos[category] # NoPos}

\* The tokens (0-based positions) of a category's span.
SpanTokens(category) == start_pos[category]..(end_pos[category] - 1)

\* A phrase as it reads in text: its words joined by single spaces.
RECURSIVE PhraseText(_)
PhraseText(phrase) ==
    IF Len(phrase) <= 1 THEN phrase
    ELSE <<Head(phrase), " ">> \o PhraseText(Tail(phrase))

Phrases(category) ==
    {patterns[n][2] : n \in {m \in 1..Len(patterns) : patterns[m][1] = category}}

\* Lower-case and free of newlines: what preprocess_text hands on.
IsNormalizedDoc(d) == \A i \in 1..Len(d) : d[i] # BlankLine /\ LowerAtom(d[i]) = d[i]

\* C1: for every category whose heading keyword occurs more than once among
\* the tokens, the recorded start position is that of the first match (the
\* smallest match position over all the category's phrases).
C1_FirstMatchRecorded ==
    sPc # "input" =>
        \A category \in CategorySet :
            Cardinality(MatchStarts(doc, category)) > 1 =>
                start_pos[category] = Min(MatchStarts(doc, category))

\* C2: on normalized text the text of a category whose heading was found has
\* the heading keyword stripped from its front (it starts after the keyword).
C2_HeadingStripped ==
    (sPc # "input" /\ IsNormalizedDoc(doc)) =>
        \A category \in Found :
            \A phrase \in Phrases(category) :
                ~StartsWith(Lower(categories[category]), PhraseText(phrase))

\* C3: the token spans of any two distinct categories with a found heading are
\* disjoint, and the spans in increasing start position are contiguous up to
\* the end of the document: each span ends where the next one starts, and the
\* last one ends at the end of the document.
C3_SpansDisjointContiguous ==
    sPc # "input" =>
        /\ \A c1, c2 \in Found :
              c1 # c2 => SpanTokens(c1) \cap SpanTokens(c2) = {}
        /\ \A c1 \in Found :
              /\ start_pos[c1] < end_pos[c1]
              /\ \/ end_pos[c1] = Len(doc)
                 \/ \E c2 \in Found : start_pos[c2] = end_pos[c1]
              /\ \A c2 \in Found :
                    start_pos[c2] > start_pos[c1] => end_pos[c1] <= start_pos[c2]

C3_Witness ==
    /\ sPc = "done"
    /\ Cardinality(Found) >= 3
    /\ \E category \in Found : end_pos[category] < Len(doc)

\* C10: every one of the five categories is a key of the mapping
\* extract_categories returns, a category whose heading matches no token maps
\* to the empty string, and so the section fields of the resume data are never
\* the "N/A" default: they are the empty string when the heading is absent.
C10_AllKeysEmptyWhenAbsent ==
    LET absent == {category \in CategorySet : MatchStarts(doc, category) = {}}
    IN  /\ sPc # "input" =>
              /\ DOMAIN categories = CategorySet
              /\ \A category \in absent : categories[category] = <<>>
        /\ sPc = "done" =>
              /\ NA \notin {data.skills, data.key_achievements, data.personal_statement}
              /\ Skills \in absent => data.skills = <<>>
              /\ KeyAchievements \in absent => data.key_achievements = <<>>
              /\ PersonalStatement \in absent => data.personal_statement = <<>>

C10_Witness ==
    /\ sPc = "done"
    /\ MatchStarts(doc, Skills) = {}
    /\ MatchStarts(doc, KeyAchievements) # {}
    /\ data.skills = <<>>
    /\ data.key_achievements # <<>>

\* C6: every value extract_phone_number returns other than None holds at
\* least 9 digits.
C6_AtLeastNineDigits ==
    (pPc = "done" /\ pResult # None) => CountDigits(pResult) >= 9

\* C7: the output of preprocess_text holds no upper-case letter and no two
\* consecutive whitespace characters (every run of whitespace, newlines
\* included, is one space), and normalizing the output again changes nothing.
C7_NormalizerContract ==
    /\ nPc \in {"once", "twice"} =>
          /\ \A i \in 1..Len(nOut) : nOut[i] \notin UpperAtoms
          /\ \A i \in 1..Len(nOut) : nOut[i] \in Whitespace => nOut[i] = " "
          /\ NoDoubleSpace(nOut)
    /\ nPc = "twice" => nOut2 = nOut

C7_Witness ==
    /\ nPc = "twice"
    /\ \E i \in 1..Len(nText) : nText[i] \in UpperAtoms
    /\ \E i \in 1..(Len(nText) - 1) : nText[i] = " " /\ nText[i + 1] = "\n"
    /\ nOut2 = nOut

\* The record-start sentences of a section, in order.
RECURSIVE StartSents(_)
StartSents(sents) ==
    IF sents = <<>> THEN <<>>
    ELSE (IF IsRecordStart(Head(sents)) THEN <<Head(sents)>> ELSE <<>>)
         \o StartSents(Tail(sents))

IsSet(value) == value # <<>> /\ value # None

\* C4: every record extract_experiences and extract_education return has its
\* date, place and organisation field (org-name / institution) set to a
\* non-null, non-empty value, "N/A" when there is no usable entity (an
\* Experience sentence whose ORG entities all hold the word "experience").
C4_RecordFieldsSet ==
    /\ rPc = "education" =>
          \A i \in 1..Len(records) :
              IsSet(records[i].date) /\ IsSet(records[i].place)
              /\ IsSet(records[i].institution)
    /\ rPc = "experience" =>
          \A i \in 1..Len(records) :
              /\ IsSet(records[i].date) /\ IsSet(records[i].place)
              /\ IsSet(records[i].org_name)
              /\ (i <= Len(StartSents(section))
                  /\ \A k \in 1..Len(StartSents(section)[i].ents) :
                        LET ent == StartSents(section)[i].ents[k]
                        IN  ent.label = "ORG" =>
                                Contains(Lower(ent.text), <<"experience">>))
                 => records[i].org_name = NA

C4_Witness ==
    /\ rPc = "experience"
    /\ Len(records) = 2
    /\ records[1].org_name = NA
    /\ records[2].org_name \notin {NA, <<>>}

\* The shape C5 is about: one record-start sentence, then two sentences that
\* do not meet the record-start condition.
OneStartTwoTrailing ==
    /\ rPc = "education"
    /\ Len(section) = 3
    /\ IsRecordStart(section[1])
    /\ ~IsRecordStart(section[2])
    /\ ~IsRecordStart(section[3])

NoNewlines(text) == Replace(text, <<"\n">>, <<" ">>)

\* C5 as stated: for such a section extract_education returns exactly one
\* record, whose description contains the text of both trailing sentences, in
\* order, separated by exactly one space.
C5_DescriptionHoldsSentences ==
    OneStartTwoTrailing =>
        /\ Len(records) = 1
        /\ Contains(records[1].description,
                    section[2].text \o <<" ">> \o section[3].text)

\* C5 as amended: for such a section extract_education returns exactly one
\* record, whose description contains the text of both trailing sentences,
\* each with its newlines replaced by spaces, in order and separated by exactly
\* one space.
C5_DescriptionHoldsSentencesOnOneLine ==
    OneStartTwoTrailing =>
        /\ Len(records) = 1
        /\ Contains(records[1].description,
                    NoNewlines(section[2].text) \o <<" ">> \o NoNewlines(section[3].text))

C5_Witness ==
    /\ OneStartTwoTrailing
    /\ Contains(section[2].text, <<"\n">>)
    /\ ~Contains(section[3].text, <<"\n">>)
    /\ Len(records) = 1
    /\ Contains(records[1].description,
                NoNewlines(section[2].text) \o <<" ">> \o section[3].text)

Blank(text) == Strip(text) = <<>>

\* C8: a blank (empty or whitespace-only) input is rejected before the
\* expensive operation runs: in no run does a blank question reach
\* answer_question from handle_question or model.generate, in no run does a
\* blank job description reach compute_similarity, the run shows the error
\* message instead, and answer_question on its own rejects a blank question
\* with a message before model.generate.
C8_BlankRejected ==
    /\ \A q \in generated \cup answered : ~Blank(q)
    /\ \A jd \in scored : ~Blank(jd)
    /\ (event = "submit_question" /\ "submit_question" \in rendered /\ Blank(question))
          => "Please provide a question." \in shown /\ generated = {}
    /\ (event = "compute_similarity" /\ "compute_similarity" \in rendered
        /\ Blank(job_description))
          => "Please enter a job description." \in shown /\ scored = {}
    /\ \A q \in Typed, tokOK \in BOOLEAN :
          Blank(q) => /\ answer_question(q, tokOK).generated = {}
                      /\ "Question cannot be empty." \in answer_question(q, tokOK).shown

C8_Witness ==
    /\ event = "submit_question"
    /\ "submit_question" \in rendered
    /\ question = <<" ", "\n">>
    /\ "Please provide a question." \in shown
    /\ submit_question_clicked
    /\ generated = {}

\* C9: a failure of the blob-storage collaborator surfaces as an empty result,
\* never as an exception: when the listing fails main gets no files and shows
\* the "No files found" warning, when the download or the PDF read fails it
\* gets no text and shows the "No data extracted" warning; that run does no
\* extraction, and the script can run again.
C9_BlobFailureIsEmptyResult ==
    /\ ~raised
    /\ \A outcome \in ListOutcomes :
          ~outcome.ok => list_files_in_container(outcome) = [raised |-> FALSE, value |-> <<>>]
    /\ \A outcome \in FetchOutcomes :
          ~outcome.ok => get_blob_data(outcome) = [raised |-> FALSE, value |-> <<>>]
    /\ listed = "fail" =>
          /\ files = <<>>
          /\ shown = {"No files found in the specified container."}
          /\ ~extracted
          /\ aPc = "idle" /\ ENABLED Rerun
    /\ fetched = "fail" =>
          /\ shown = {"No data extracted from the file."}
          /\ ~extracted
          /\ aPc = "idle" /\ ENABLED Rerun

C9_Witness ==
    /\ fetched = "fail"
    /\ listed = "ok"
    /\ files # <<>>
    /\ event = "compute_similarity"
    /\ shown = {"No data extracted from the file."}
    /\ ~extracted

\* The end position C13 describes for a category whose start is recorded.
MinGreaterStart(category) ==
    LET greater == {start_pos[other] : other \in
                      {x \in CategorySet \ {category} :
                         start_pos[x] # NoPos /\ start_pos[x] > start_pos[category]}}
    IN  IF greater = {} THEN Len(doc) ELSE Min(greater)

\* C13: for each category with start position p the end position is the
\* minimum start position, over all other categories with a recorded start,
\* that is strictly greater than p, and the document length when there is
\* none; the section is the token span [p, end).
C13_EndIsNextGreaterStart ==
    sPc # "input" =>
        \A category \in Found :
            /\ end_pos[category] = MinGreaterStart(category)
            /\ categories[category] =
                  SectionText(doc, category, start_pos[category], MinGreaterStart(category))

C13_Witness ==
    /\ sPc = "done"
    /\ \E c1, c2, c3 \in Found :
          /\ start_pos[c1] < start_pos[c2] /\ start_pos[c2] + 1 < start_pos[c3]
          /\ end_pos[c2] = start_pos[c3]
          /\ end_pos[c3] = Len(doc)

\* The record-start condition, stated on the entities themselves.
HasLabel(sent, label) == \E i \in 1..Len(sent.ents) : sent.ents[i].label = label
Qualifies(sent) == HasLabel(sent, "DATE") /\ HasLabel(sent, "ORG") /\ HasLabel(sent, "GPE")

RECURSIVE QualifyingSents(_)
QualifyingSents(sents) ==
    IF sents = <<>> THEN <<>>
    ELSE (IF Qualifies(Head(sents)) THEN <<Head(sents)>> ELSE <<>>)
         \o QualifyingSents(Tail(sents))

\* The text of the first entity of a sentence with the given label.
FirstOf(sent, label) ==
    sent.ents[Min({i \in 1..Len(sent.ents) : sent.ents[i].label = label})].text

\* C11: the number of records returned equals the number of sentences whose
\* entity labels hold DATE, ORG and GPE together, and the i-th record is built
\* from the i-th such sentence (its date, place and institution are that
\* sentence's first DATE, GPE and ORG entity).
C11_OneRecordPerStartSentence ==
    rPc \in {"education", "experience"} =>
        LET starts == QualifyingSents(section)
        IN  /\ Len(records) = Len(starts)
            /\ \A i \in 1..Len(records) :
                  /\ records[i].date = FirstOf(starts[i], "DATE")
                  /\ records[i].place = FirstOf(starts[i], "GPE")
                  /\ rPc = "education" =>
                        records[i].institution = FirstOf(starts[i], "ORG")

C11_Witness ==
    /\ rPc = "education"
    /\ Len(section) = 3
    /\ Qualifies(section[1]) /\ ~Qualifies(section[2]) /\ Qualifies(section[3])
    /\ HasLabel(section[2], "DATE") /\ HasLabel(section[2], "GPE")
    /\ Len(records) = 2
    /\ records[2].institution = FirstOf(section[3], "ORG")

\* The sentences that follow the n-th record-start sentence up to the next one.
RECURSIVE TrailingOf(_, _)
TrailingOf(sents, n) ==
    IF sents = <<>> THEN <<>>
    ELSE IF Qualifies(Head(sents))
         THEN IF n = 0 THEN <<>> ELSE TrailingOf(Tail(sents), n - 1)
         ELSE IF n = 0 THEN <<Head(sents)>> \o TrailingOf(Tail(sents), 0)
              ELSE TrailingOf(Tail(sents), n)

\* The texts of some sentences, each followed by one space.
RECURSIVE Spaced(_)
Spaced(sents) ==
    IF sents = <<>> THEN <<>> ELSE Head(sents).text \o <<" ">> \o Spaced(Tail(sents))

\* C15: on the pipeline of the app (the text went through preprocess_text and
\* holds no newline) every Experience record has role and org-description
\* "N/A", and every Education record has formation-name "N/A" and a
\* description that is the literal "N/A" followed at once, with no space
\* between, by the appended sentence texts.
C15_PipelineLineFieldsNA ==
    rMode = "pipeline" =>
        /\ rPc = "experience" =>
              \A i \in 1..Len(records) :
                  records[i].role = NA /\ records[i].org_description = NA
        /\ rPc = "education" =>
              \A i \in 1..Len(records) :
                  /\ records[i].formation_name = NA
                  /\ records[i].description = NA \o Spaced(TrailingOf(section, i))

C15_Witness ==
    /\ rMode = "pipeline"
    /\ rPc = "education"
    /\ Len(section) = 2
    /\ section[1].text = preprocess_text(SentStartLines.text)
    /\ section[2].text = preprocess_text(SentFreeLines.text)
    /\ Len(records) = 1
    /\ records[1].formation_name = NA
    /\ records[1].description = <<"N/A", "more", " ", "acme", " ">>

InLoop == rPc \in {"education_loop", "experience_loop"}

\* The loop ends with the list the function returns.
LoopReturnsFunctionResult ==
    /\ (rPc = "education" /\ consumed = Len(section)) => records = extract_education(section)
    /\ (rPc = "experience" /\ consumed = Len(section)) => records = extract_experiences(section)

\* C12: when a sentence does not meet the record-start condition and a record
\* is open, the iteration appends the sentence text (newlines replaced by
\* spaces) and one space to the description of the most recently opened record
\* only: its other fields, every earlier record and the number of records stay
\* as they were.
C12_AppendOnlyToOpenRecord ==
    [][(/\ InLoop
        /\ consumed' = consumed + 1
        /\ ~Qualifies(section[consumed'])
        /\ records # <<>>)
       => /\ Len(records') = Len(records)
          /\ \A i \in 1..(Len(records) - 1) : records'[i] = records[i]
          /\ records'[Len(records)] =
                [records[Len(records)] EXCEPT
                    !.description = @ \o NoNewlines(section[consumed'].text) \o <<" ">>]
          /\ index' = index]_vars

C12_Witness ==
    /\ rPc = "experience_loop"
    /\ consumed = 3
    /\ Qualifies(section[1]) /\ Qualifies(section[2]) /\ ~Qualifies(section[3])
    /\ Contains(section[3].text, <<"\n">>)
    /\ Len(records) = 2
    /\ records[1].description = <<>>
    /\ records[2].description = NoNewlines(section[3].text) \o <<" ">>

\* The sentences before the first record-start sentence.
RECURSIVE LeadingStray(_)
LeadingStray(sents) ==
    IF sents = <<>> \/ Qualifies(Head(sents)) THEN <<>>
    ELSE <<Head(sents)>> \o LeadingStray(Tail(sents))

FieldValues(rec) == {rec[f] : f \in DOMAIN rec}

\* C14: the sentences that do not meet the record-start condition and come
\* before the first record-start sentence are discarded: as long as no
\* record-start sentence was met the list stays empty (a section without one
\* yields the empty list), the list returned is the one the section without
\* those sentences yields, and the text of such a sentence, unless a later
\* sentence holds it too, is in no field of any record.
C14_LeadingSentencesDiscarded ==
    LET stray == LeadingStray(section)
        rest == SubSeq(section, Len(stray) + 1, Len(section))
    IN  /\ (InLoop /\ consumed <= Len(stray)) => records = <<>> /\ index = -1
        /\ (rPc \in {"education", "experience"} /\ consumed = Len(section)) =>
              /\ rest = <<>> => records = <<>>
              /\ records = BuildRecords(rest, <<>>,
                                        IF rPc = "education" THEN Education ELSE Experience)
              /\ \A k \in 1..Len(stray) :
                    (\A j \in 1..Len(rest) : ~Contains(rest[j].text, stray[k].text))
                    => \A i \in 1..Len(records) : \A value \in FieldValues(records[i]) :
                          ~Contains(value, stray[k].text)

C14_Witness ==
    /\ rPc = "education"
    /\ consumed = 3
    /\ section[1] = SentFreeLines /\ section[2] = SentNoOrg
    /\ Qualifies(section[3])
    /\ Len(records) = 1
    /\ records[1].description = NA

====
